---------------------------- MODULE Spec2Model ----------------------------
(***************************************************************************)
(* A model of the RAW preview generator (src/raw_preview_generator.py):    *)
(* the directory enumeration, the skip / convert / upsert loop of          *)
(* scan_raw_files with its batched commits, and the lock-retry wrapper     *)
(* db_execute_with_retry, over a filesystem and an SQLite catalog.         *)
(*                                                                         *)
(* File names are sequences of one-character strings, so that the suffix   *)
(* and the stem of a name are computed as pathlib computes them.  A path   *)
(* is a record [root, name]: os.path.join(root, file).  Directories are    *)
(* identified by their position in the walk.                               *)
(***************************************************************************)
EXTENDS Integers, Sequences, FiniteSets, TLC

\* ------------------------------------------------------------------------
\* Bounds of the model
\* ------------------------------------------------------------------------

\* Largest --limit value that a run may be given.
MaxLimit == 3

\* Largest --limit value of the repeated runs of Spec.
MaxScanLimit == 1

\* Directories and directory entries of the trees the enumeration is
\* checked on (SpecWalk).
MaxDirs == 2

MaxEntries == 3

\* Scan runs of one behaviour of Spec.
MaxRuns == 2

\* Directories (one RAW file each) of the large tree of SpecBatch, and the
\* number of faults the environment injects into its run.
BatchFiles == 51

BatchFaults == 0

\* Arguments of the retry wrapper drawn in SpecRetry.
MaxRetriesArg == 6

MaxDelayArg == 3

\* Rows the other scan process may hold uncommitted.
MaxPeerRows == 2

\* Pieces of the longest path given to parse_client_info.
MaxTokens == 5

\* Rows of the largest catalog searched.
MaxSearchRows == 2

\* ------------------------------------------------------------------------
\* Program constants
\* ------------------------------------------------------------------------

\* Python's None, for an optional integer argument.
None == -1

\* db_execute_with_retry(..., max_retries=5, delay=0.5); delays are counted
\* in tenths of a second.
DefaultMaxRetries == 5

DefaultDelay == 5

\* "Commit every 50 files".
CommitEvery == 50

RAW_EXTENSIONS ==
    { <<".", "a", "r", "w">>, <<".", "c", "r", "2">>, <<".", "n", "e", "f">>,
      <<".", "d", "n", "g">>, <<".", "r", "a", "f">>, <<".", "o", "r", "f">>,
      <<".", "r", "w", "2">>, <<".", "p", "e", "f">>, <<".", "s", "r", "w">>,
      <<".", "c", "r", "3">> }

\* ------------------------------------------------------------------------
\* Names, suffixes, stems (pathlib) and str.lower
\* ------------------------------------------------------------------------

a_cr2 == <<"a", ".", "c", "r", "2">>

a_nef == <<"a", ".", "n", "e", "f">>

b_CR2 == <<"b", ".", "C", "R", "2">>

n_jpg == <<"n", ".", "j", "p", "g">>

dot_cr2 == <<".", "c", "r", "2">>

a_b_cr2 == <<"a", ".", "b", ".", "c", "r", "2">>

a_dot == <<"a", ".">>

\* str.lower on one character (the upper-case letters the names use).
LowerChar(c) ==
    CASE c = "A" -> "a" [] c = "C" -> "c" [] c = "D" -> "d" [] c = "E" -> "e"
      [] c = "F" -> "f" [] c = "G" -> "g" [] c = "N" -> "n" [] c = "O" -> "o"
      [] c = "P" -> "p" [] c = "R" -> "r" [] c = "S" -> "s" [] c = "W" -> "w"
      [] OTHER -> c

Lower(s) == [i \in 1..Len(s) |-> LowerChar(s[i])]

\* name.rfind('.'), 1-based; 0 when the name has no dot.
LastDot(name) ==
    LET dots == {i \in 1..Len(name) : name[i] = "."}
    IN  IF dots = {} THEN 0 ELSE CHOOSE i \in dots : \A j \in dots : j <= i

\* PurePath.suffix: the part from the last dot, unless that dot is the first
\* or the last character of the name.
PathSuffix(name) ==
    LET i == LastDot(name)
    IN  IF 1 < i /\ i < Len(name) THEN SubSeq(name, i, Len(name)) ELSE <<>>

\* PurePath.stem: the name without its suffix.
PathStem(name) ==
    LET i == LastDot(name)
    IN  IF 1 < i /\ i < Len(name) THEN SubSeq(name, 1, i - 1) ELSE name

IsRaw(name) == Lower(PathSuffix(name)) \in RAW_EXTENSIONS

PreviewSuffix ==
    <<"_", "p", "r", "e", "v", "i", "e", "w", ".", "j", "p", "g">>

\* A plausible bug: the preview_dir argument, which every caller passes and
\* the function ignores, is used: all previews go to one directory.
get_preview_path_in_preview_dir(raw_path) ==
    [root |-> 0, name |-> PathStem(raw_path.name) \o PreviewSuffix]

\* get_preview_path: <stem>_preview.jpg in the directory of the RAW file.
get_preview_path(raw_path) ==
    [root |-> raw_path.root, name |-> PathStem(raw_path.name) \o PreviewSuffix]

\* ------------------------------------------------------------------------
\* State
\* ------------------------------------------------------------------------

VARIABLES
    tree,         \* the directory tree: os.walk's (root, files) in walk order
    previews,     \* the preview paths that exist on disk
    tableExists,  \* the raw_photos table has been created
    db,           \* the committed rows of raw_photos, in id order
    pending,      \* the rows upserted by the open transaction, not committed
    pc,           \* the position of the scan process
    run,          \* the number of scan runs started
    update_db,    \* arguments of scan_raw_files
    regenerate,
    limit,
    di,           \* os.walk position: directory, entry
    fi,
    raw_files,    \* the list the enumeration builds
    examined,     \* the directory entries the enumeration has looked at
    idx,          \* per-file loop: enumerate index
    processed,
    skipped,
    failed,
    outcomes,     \* what happened to raw_files[1..idx] in this run
    metadata,     \* the bundle extract_exif_from_raw returned for the file
    max_retries,  \* db_execute_with_retry: arguments and locals
    delay,
    attempt,
    execLog,      \* outcome of each cursor.execute of the current call
    slept,        \* the time.sleep calls of the current call
    callResult,   \* "none", "running", "returned", "raised"
    faultsLeft,   \* faults the environment may still inject (None: any)
    orphans,      \* history: previews left without a committed row by a
                  \* terminated run, since the last regenerate run
    prev,         \* history: how the previous run ended
    peer,         \* the rows another scan process has upserted and not yet
                  \* committed on its own connection to the same catalog
    arg,          \* a function called on its own: its arguments
    ret           \* and what it returned

storeVars == <<previews, tableExists, db, pending>>

argVars == <<update_db, regenerate, limit>>

walkVars == <<di, fi, raw_files, examined>>

loopVars == <<idx, processed, skipped, failed, outcomes, metadata>>

retryVars == <<max_retries, delay, attempt, execLog, slept, callResult>>

histVars == <<orphans, prev>>

callVars == <<arg, ret>>

vars ==
    <<tree, previews, tableExists, db, pending, pc, run, update_db, regenerate,
      limit, di, fi, raw_files, examined, idx, processed, skipped, failed,
      outcomes, metadata, max_retries, delay, attempt, execLog, slept,
      callResult, faultsLeft, orphans, prev, peer, arg, ret>>

\* ------------------------------------------------------------------------
\* Directory trees
\* ------------------------------------------------------------------------

Limits == {None} \cup (0..MaxLimit)

ScanLimits == {None} \cup (1..MaxScanLimit)

\* Python truth of an optional integer: None and 0 are false.
Truthy(n) == n # None /\ n # 0

\* `limit and len(raw_files) >= limit`
LimitReached(lim, files) == Truthy(lim) /\ Len(files) >= lim

RECURSIVE Flatten(_)
Flatten(t) == IF t = <<>> THEN <<>> ELSE Head(t) \o Flatten(Tail(t))

\* The paths of a tree, in walk order.
RECURSIVE PathsFrom(_, _)
PathsFrom(t, d) ==
    IF d > Len(t) THEN <<>>
    ELSE [i \in 1..Len(t[d]) |-> [root |-> d, name |-> t[d][i]]]
         \o PathsFrom(t, d + 1)

AllPaths(t) == PathsFrom(t, 1)

RawPaths(t) == SelectSeq(AllPaths(t), LAMBDA p : IsRaw(p.name))

Range(s) == {s[i] : i \in 1..Len(s)}

Min(a, b) == IF a <= b THEN a ELSE b

\* ------------------------------------------------------------------------
\* scan_raw_files: the enumeration (lines 176-190)
\* ------------------------------------------------------------------------

\* for file in files: one directory entry is examined.
WalkFile ==
    /\ pc = "walk"
    /\ fi <= Len(tree[di])
    /\ LET file == tree[di][fi]
           found == IF IsRaw(file)
                    THEN Append(raw_files, [root |-> di, name |-> file])
                    ELSE raw_files
       IN  /\ raw_files' = found
           /\ examined' = examined + 1
           /\ IF IsRaw(file) /\ LimitReached(limit, found)
              THEN pc' = "walk_outer" /\ fi' = fi
              ELSE pc' = "walk" /\ fi' = fi + 1
    /\ UNCHANGED <<tree, callVars, peer, storeVars, run, argVars, di, loopVars, retryVars,
                   faultsLeft, histVars>>

\* The files of the directory are exhausted.
WalkDirEnd ==
    /\ pc = "walk"
    /\ fi > Len(tree[di])
    /\ pc' = "walk_outer"
    /\ UNCHANGED <<tree, callVars, peer, storeVars, run, argVars, walkVars, loopVars,
                   retryVars, faultsLeft, histVars>>

\* The check after the inner loop: leave the walk, or enter the next
\* directory.
WalkOuter ==
    /\ pc = "walk_outer"
    /\ IF LimitReached(limit, raw_files) \/ di >= Len(tree)
       THEN pc' = "found" /\ UNCHANGED <<di, fi>>
       ELSE pc' = "walk" /\ di' = di + 1 /\ fi' = 1
    /\ UNCHANGED <<tree, callVars, peer, storeVars, run, argVars, raw_files, examined,
                   loopVars, retryVars, faultsLeft, histVars>>

Walk == WalkFile \/ WalkDirEnd \/ WalkOuter

\* ------------------------------------------------------------------------
\* The catalog: rows, INSERT OR REPLACE, commit
\* ------------------------------------------------------------------------

NULL == "NULL"

\* What rawpy shows of a RAW file: whether imread opens it, whether the image
\* has a `metadata` attribute, and for every attribute the code reads
\* whether it is there (has), whether its value is of the kind the code
\* formats (ok), and the value: a text, tenths of an f-number,
\* milliseconds of exposure, millimetres, seconds since the epoch.
Attr(has, ok, v) == [has |-> has, ok |-> ok, v |-> v]

NoText == Attr(FALSE, TRUE, "")

NoNumber == Attr(FALSE, TRUE, 0)

BadNumber == Attr(TRUE, FALSE, 0)

RawImages ==
    [readable : BOOLEAN, has_metadata : BOOLEAN,
     make : {NoText, Attr(TRUE, TRUE, "make")},
     model : {NoText, Attr(TRUE, TRUE, "model")},
     iso_speed : {NoText, Attr(TRUE, TRUE, "100")},
     aperture : {NoNumber, BadNumber, Attr(TRUE, TRUE, 28)},
     shutter : {NoNumber, BadNumber, Attr(TRUE, TRUE, 0),
                Attr(TRUE, TRUE, 4), Attr(TRUE, TRUE, 2000)},
     focal_length : {NoNumber, BadNumber, Attr(TRUE, TRUE, 50)},
     timestamp : {NoNumber, BadNumber, Attr(TRUE, TRUE, 1)}]

\* Lines 121-132: the bundle before anything is read.
AllNull ==
    [camera_make |-> NULL, camera_model |-> NULL, lens_model |-> NULL,
     iso |-> NULL, aperture |-> NULL, shutter_speed |-> NULL,
     focal_length |-> NULL, datetime |-> NULL,
     gps_latitude |-> NULL, gps_longitude |-> NULL]

\* getattr(raw.metadata, name, None).
GetAttr(a) == IF a.has THEN a.v ELSE NULL

\* A plausible bug: the attribute is read without hasattr, and its absence
\* raises as a value of the wrong kind does.
RaisesWhenAbsent(a) == ~a.has \/ ~a.ok

\* Formatting the attribute raises: it is there and is no number.
Raises(a) == a.has /\ ~a.ok

\* f"f/{aperture:.1f}", the f-number in tenths.
FormatAperture(v) ==
    CASE v = 28 -> "f/2.8" [] v = 40 -> "f/4.0" [] OTHER -> "f/0.0"

\* Lines 151-155: 1/ss divides by zero when ss is 0.
ShutterRaises(a) == Raises(a) \/ (a.has /\ a.v = 0)

\* f"{ss:.1f}s" from one second on, f"1/{int(1/ss)}" below.
FormatShutter(ms) ==
    IF ms >= 1000
    THEN CASE (ms + 50) \div 100 = 20 -> "2.0s" [] OTHER -> "1.0s"
    ELSE CASE 1000 \div ms = 250 -> "1/250" [] OTHER -> "1/1"

\* f"{focal_length:.0f}mm".
FormatFocal(v) == CASE v = 50 -> "50mm" [] OTHER -> "0mm"

\* datetime.fromtimestamp(timestamp).
FromTimestamp(v) == CASE v = 1 -> "1970-01-01 00:00:01" [] OTHER -> "1970-01-01 00:00:00"

\* Lines 134-168: the bundle is filled field by field inside one try, and
\* the except returns it as it is when a step raises.  lens_model and the
\* gps fields are never assigned.
ExifBundle(raw) ==
    IF ~raw.readable \/ ~raw.has_metadata THEN AllNull
    ELSE
    LET m1 == [AllNull EXCEPT !.camera_make = GetAttr(raw.make),
                              !.camera_model = GetAttr(raw.model),
                              !.iso = GetAttr(raw.iso_speed)]
        m2 == IF raw.aperture.has
              THEN [m1 EXCEPT !.aperture = FormatAperture(raw.aperture.v)]
              ELSE m1
        m3 == IF raw.shutter.has
              THEN [m2 EXCEPT !.shutter_speed = FormatShutter(raw.shutter.v)]
              ELSE m2
        m4 == IF raw.focal_length.has
              THEN [m3 EXCEPT !.focal_length = FormatFocal(raw.focal_length.v)]
              ELSE m3
        m5 == IF raw.timestamp.has
              THEN [m4 EXCEPT !.datetime = FromTimestamp(raw.timestamp.v)]
              ELSE m4
    IN  CASE Raises(raw.aperture) -> m1
          [] ShutterRaises(raw.shutter) -> m2
          [] Raises(raw.focal_length) -> m3
          [] Raises(raw.timestamp) -> m4
          [] OTHER -> m5

\* The files the scan meets: one that rawpy reads in full, one that imread
\* rejects, one whose aperture is no number.
GoodImage ==
    [readable |-> TRUE, has_metadata |-> TRUE,
     make |-> Attr(TRUE, TRUE, "make"), model |-> Attr(TRUE, TRUE, "model"),
     iso_speed |-> Attr(TRUE, TRUE, "100"), aperture |-> Attr(TRUE, TRUE, 28),
     shutter |-> Attr(TRUE, TRUE, 4), focal_length |-> Attr(TRUE, TRUE, 50),
     timestamp |-> Attr(TRUE, TRUE, 1)]

ImageWith(failure) ==
    CASE failure = "imread" -> [GoodImage EXCEPT !.readable = FALSE]
      [] failure = "aperture" -> [GoodImage EXCEPT !.aperture = BadNumber]
      [] OTHER -> GoodImage

\* extract_exif_from_raw (lines 119-168) as the scan uses it, on the two
\* fields of the bundle that the rows of the model carry.  `failure` is
\* where the extraction raises: "imread" (nothing read yet), "aperture"
\* (after the camera fields were stored) or "no" (no exception).
extract_exif_from_raw(failure) ==
    LET m == ExifBundle(ImageWith(failure))
    IN  [camera_make |-> m.camera_make, aperture |-> m.aperture]

ExifFailures == {"no", "imread", "aperture"}

\* The parameters of the INSERT OR REPLACE (lines 268-274).  indexed_at is
\* datetime.now() of the process, read on the clock of its run.
UpsertParams(raw_path, meta) ==
    [filepath |-> raw_path,
     indexed_at |-> run,
     preview_path |-> get_preview_path(raw_path),
     camera_make |-> meta.camera_make,
     aperture |-> meta.aperture]

\* A plausible bug: fields that are null in the new row keep the old value.
MergeRow(old, new) ==
    [new EXCEPT !.camera_make = IF @ = NULL THEN old.camera_make ELSE @,
                !.aperture = IF @ = NULL THEN old.aperture ELSE @]

InsertOrMerge(table, row) ==
    LET old == SelectSeq(table, LAMBDA r : r.filepath = row.filepath)
    IN  SelectSeq(table, LAMBDA r : r.filepath # row.filepath)
        \o <<IF old = <<>> THEN row ELSE MergeRow(old[1], row)>>

\* INSERT OR REPLACE with filepath UNIQUE (lines 204, 261): the row that
\* holds the filepath is deleted and the new row is inserted under a new id.
InsertOrReplace(table, row) ==
    SelectSeq(table, LAMBDA r : r.filepath # row.filepath) \o <<row>>

RECURSIVE ApplyAll(_, _)
ApplyAll(table, rows) ==
    IF rows = <<>> THEN table
    ELSE ApplyAll(InsertOrReplace(table, Head(rows)), Tail(rows))

\* The table as the scan's connection sees it: the committed rows with the
\* open transaction's upserts applied.
View == ApplyAll(db, pending)

RowsFor(table, path) == SelectSeq(table, LAMBDA r : r.filepath = path)

\* ------------------------------------------------------------------------
\* The environment's faults
\* ------------------------------------------------------------------------

FaultAllowed == faultsLeft # 0

Spend == IF faultsLeft = None THEN None ELSE faultsLeft - 1

\* ------------------------------------------------------------------------
\* db_execute_with_retry (lines 44-56)
\* ------------------------------------------------------------------------

ExecOutcomes == {"ok", "locked", "error"}

\* A plausible bug: `attempt < max_retries` lets the last attempt sleep and
\* fall out of the loop.
RetryDecisionOffByOne(outcome, att, retries) ==
    IF outcome = "ok" THEN "return"
    ELSE IF outcome = "locked" /\ att < retries THEN "sleep"
    ELSE "raise"

\* A plausible bug: every exception is retried, not only a lock.
RetryDecisionAnyError(outcome, att, retries) ==
    IF outcome = "ok" THEN "return"
    ELSE IF att < retries - 1 THEN "sleep"
    ELSE "raise"

\* What one pass of the loop body does with the outcome of cursor.execute:
\* "locked" is an OperationalError whose text holds 'locked', "error" any
\* other exception.
RetryDecision(outcome, att, retries) ==
    IF outcome = "ok" THEN "return"
    ELSE IF outcome = "locked" /\ att < retries - 1 THEN "sleep"
    ELSE "raise"

\* The locals of the wrapper when no call is in progress.
NoCall ==
    [attempt |-> 0, execLog |-> <<>>, slept |-> <<>>, callResult |-> "none"]

\* db_execute_with_retry is entered with its default arguments.
BeginCall ==
    /\ max_retries' = DefaultMaxRetries
    /\ delay' = DefaultDelay
    /\ attempt' = 0
    /\ execLog' = <<>>
    /\ slept' = <<>>
    /\ callResult' = "running"

\* A plausible bug, the one the comment of line 52 describes: the sleep
\* doubles with every attempt.
AfterExecuteExponential(outcome) ==
    LET d == RetryDecision(outcome, attempt, max_retries)
    IN  [attempt |-> IF d = "sleep" THEN attempt + 1 ELSE attempt,
         execLog |-> Append(execLog, outcome),
         slept |-> IF d = "sleep"
                   THEN Append(slept, delay * (2 ^ attempt)) ELSE slept,
         callResult |-> CASE d = "return" -> "returned"
                          [] d = "raise" -> "raised"
                          [] OTHER -> "running"]

\* One pass of `for attempt in range(max_retries)`: the locals after
\* cursor.execute ended with `outcome`.  The loop is left by return True, by
\* raise, or (range exhausted) by return False.
AfterExecute(outcome) ==
    LET d == RetryDecision(outcome, attempt, max_retries)
    IN  [attempt |-> IF d = "sleep" THEN attempt + 1 ELSE attempt,
         execLog |-> Append(execLog, outcome),
         slept |-> IF d = "sleep"
                   THEN Append(slept, delay * (attempt + 1)) ELSE slept,
         callResult |-> CASE d = "return" -> "returned"
                          [] d = "raise" -> "raised"
                          [] d = "sleep" /\ attempt + 1 < max_retries -> "running"
                          [] OTHER -> "returned_false"]

SetCall(r) ==
    /\ attempt' = r.attempt
    /\ execLog' = r.execLog
    /\ slept' = r.slept
    /\ callResult' = r.callResult
    /\ UNCHANGED <<max_retries, delay>>

\* The store admits one writer: a statement that writes succeeds only while
\* no other connection has a transaction open, and the lock it meets while
\* one has is no fault of the environment.
Granted(outcome, writes) == (outcome = "ok" /\ writes) => peer = <<>>

Charged(outcome) ==
    /\ outcome # "ok"
    /\ attempt = 0
    /\ ~(outcome = "locked" /\ peer # <<>>)

\* cursor.execute may be run: a call is in progress, and a statement that
\* meets contention on its first execution spends one of the environment's
\* faults.
CanExecute(outcome) ==
    /\ callResult = "running"
    /\ attempt < max_retries
    /\ Charged(outcome) => FaultAllowed

SpendOn(outcome) ==
    faultsLeft' = IF Charged(outcome) THEN Spend ELSE faultsLeft

\* ------------------------------------------------------------------------
\* scan_raw_files
\* ------------------------------------------------------------------------

\* No run with regenerate=false has just ended with its summary.
NoPrev == [done |-> FALSE, failed |-> 0, raw_files |-> <<>>]

Stopped == {"idle", "empty", "done", "no_connection", "aborted", "killed"}

PathsOfTree == Range(AllPaths(tree))

\* Previews on disk without a committed row.
Orphaned(files, rows) ==
    {p \in PathsOfTree :
        get_preview_path(p) \in files /\ RowsFor(rows, p) = <<>>}

\* scan_raw_files(directory, update_db, regenerate, limit) is called.
StartScan ==
    /\ pc \in Stopped
    /\ run < MaxRuns
    /\ run' = run + 1
    /\ update_db' \in BOOLEAN
    /\ regenerate' \in BOOLEAN
    /\ limit' \in ScanLimits
    /\ pc' = "walk"
    /\ di' = 1 /\ fi' = 1 /\ raw_files' = <<>> /\ examined' = 0
    /\ idx' = 0 /\ processed' = 0 /\ skipped' = 0 /\ failed' = 0
    /\ outcomes' = <<>> /\ metadata' = "none"
    /\ callResult' = "none" /\ execLog' = <<>> /\ slept' = <<>> /\ attempt' = 0
    /\ prev' = IF pc = "done" /\ ~regenerate
               THEN [done |-> TRUE, failed |-> failed, raw_files |-> raw_files]
               ELSE NoPrev
    /\ orphans' = IF regenerate' THEN {} ELSE orphans
    /\ UNCHANGED <<tree, callVars, peer, storeVars, max_retries, delay, faultsLeft>>

\* Lines 186-198: nothing found, or the connection is opened.
Found ==
    /\ pc = "found"
    /\ pc' = IF raw_files = <<>> THEN "empty"
             ELSE IF update_db THEN "connect" ELSE "loop"
    /\ UNCHANGED <<tree, callVars, peer, storeVars, run, argVars, walkVars, loopVars,
                   retryVars, faultsLeft, histVars>>

\* sqlite3.connect and PRAGMA journal_mode=WAL (lines 195-198).
ConnectResults == {"ok", "error"}

Connect ==
    /\ pc = "connect"
    /\ \E result \in ConnectResults :
         IF result = "ok"
         THEN /\ pc' = "schema"
              /\ BeginCall
              /\ UNCHANGED faultsLeft
         ELSE /\ FaultAllowed
              /\ faultsLeft' = Spend
              /\ pc' = "no_connection"
              /\ UNCHANGED retryVars
    /\ UNCHANGED <<tree, callVars, peer, storeVars, run, argVars, walkVars, loopVars, histVars>>

\* The process is gone, and its counters with it.
ProcessGone ==
    /\ idx' = 0 /\ processed' = 0 /\ skipped' = 0 /\ failed' = 0
    /\ outcomes' = <<>> /\ metadata' = "none"

\* The process ends with the transaction open: its rows are rolled back.
RolledBack ==
    /\ pending' = <<>>
    /\ orphans' = orphans \cup Orphaned(previews, db)

\* CREATE TABLE IF NOT EXISTS through the wrapper, outside any try, then
\* conn.commit() (lines 201-223).  The DDL statement opens no transaction.
SchemaExecute ==
    /\ pc = "schema"
    /\ \E o \in ExecOutcomes :
         /\ CanExecute(o)
         /\ Granted(o, ~tableExists)
         /\ SpendOn(o)
         /\ LET r == AfterExecute(o)
            IN  CASE r.callResult = "running" ->
                       /\ SetCall(r)
                       /\ pc' = pc
                       /\ UNCHANGED <<storeVars, loopVars, histVars>>
                  [] r.callResult = "raised" ->
                       /\ SetCall(r)
                       /\ pc' = "aborted"
                       /\ RolledBack
                       /\ ProcessGone
                       /\ UNCHANGED <<previews, tableExists, db, prev>>
                  [] OTHER ->
                       /\ SetCall(NoCall)
                       /\ tableExists' = TRUE
                       /\ pc' = "loop"
                       /\ UNCHANGED <<previews, db, pending, loopVars, histVars>>
    /\ UNCHANGED <<tree, callVars, peer, run, argVars, walkVars>>

\* A plausible bug: the existing preview is never looked at.
SkipDecisionNever(regen, preview_path, files) == FALSE

\* A plausible bug: the preview is looked for only when regenerating.
SkipDecisionInverted(regen, preview_path, files) ==
    regen /\ preview_path \in files

\* Line 237: `not regenerate and os.path.exists(preview_path)`.
SkipDecision(regen, preview_path, files) == ~regen /\ preview_path \in files


\* Lines 230-239: the next file is skipped.
LoopSkip ==
    /\ pc = "loop"
    /\ idx < Len(raw_files)
    /\ SkipDecision(regenerate, get_preview_path(raw_files[idx + 1]), previews)
    /\ idx' = idx + 1
    /\ skipped' = skipped + 1
    /\ outcomes' = Append(outcomes, "skipped")
    /\ UNCHANGED <<tree, callVars, peer, storeVars, pc, run, argVars, walkVars, processed,
                   failed, metadata, retryVars, faultsLeft, histVars>>

ConvertResults == {"ok", "decode_error", "encode_error"}

\* A plausible bug: the exception is swallowed and success is returned.
ConvertAlwaysSucceeds(result) == TRUE

\* convert_raw_to_preview (lines 87-116) returns (True, size) when nothing
\* raised, (False, reason) on any exception.
ConvertSucceeds(result) == result = "ok"

\* The preview file exists after the call: img.save wrote it, or raised
\* after it had opened it.
ConvertWrites(result) == result \in {"ok", "encode_error"}

\* A plausible bug: the `continue` of line 247 is missing, and a file whose
\* conversion failed is counted as processed as well.
ConvertNoContinue ==
    /\ pc = "loop"
    /\ idx < Len(raw_files)
    /\ ~SkipDecision(regenerate, get_preview_path(raw_files[idx + 1]), previews)
    /\ idx' = idx + 1
    /\ \E result \in ConvertResults :
         LET preview_path == get_preview_path(raw_files[idx + 1])
         IN  /\ result # "ok" => FaultAllowed
             /\ faultsLeft' = IF result # "ok" THEN Spend ELSE faultsLeft
             /\ previews' = IF ConvertWrites(result)
                            THEN previews \cup {preview_path} ELSE previews
             /\ processed' = processed + 1
             /\ failed' = IF ConvertSucceeds(result) THEN failed ELSE failed + 1
             /\ IF update_db
                THEN pc' = "extract" /\ UNCHANGED outcomes
                ELSE pc' = "loop" /\ outcomes' = Append(outcomes, "converted")
    /\ UNCHANGED <<tree, callVars, peer, tableExists, db, pending, run, argVars, walkVars,
                   skipped, metadata, retryVars, histVars>>

\* Lines 241-250: the next file is converted.
Convert ==
    /\ pc = "loop"
    /\ idx < Len(raw_files)
    /\ ~SkipDecision(regenerate, get_preview_path(raw_files[idx + 1]), previews)
    /\ idx' = idx + 1
    /\ \E result \in ConvertResults :
         LET preview_path == get_preview_path(raw_files[idx + 1])
         IN  /\ result # "ok" => FaultAllowed
             /\ faultsLeft' = IF result # "ok" THEN Spend ELSE faultsLeft
             /\ previews' = IF ConvertWrites(result)
                            THEN previews \cup {preview_path} ELSE previews
             /\ IF ConvertSucceeds(result)
                THEN /\ processed' = processed + 1
                     /\ IF update_db
                        THEN pc' = "extract" /\ UNCHANGED outcomes
                        ELSE pc' = "loop"
                             /\ outcomes' = Append(outcomes, "converted")
                     /\ UNCHANGED failed
                ELSE /\ failed' = failed + 1
                     /\ outcomes' = Append(outcomes, "failed")
                     /\ UNCHANGED <<processed, pc>>
    /\ UNCHANGED <<tree, callVars, peer, tableExists, db, pending, run, argVars, walkVars,
                   skipped, metadata, retryVars, histVars>>

\* Lines 253-256: the metadata of the converted file.
Extract ==
    /\ pc = "extract"
    /\ \E failure \in ExifFailures :
         /\ failure # "no" => FaultAllowed
         /\ faultsLeft' = IF failure # "no" THEN Spend ELSE faultsLeft
         /\ metadata' = extract_exif_from_raw(failure)
    /\ pc' = "upsert"
    /\ BeginCall
    /\ UNCHANGED <<tree, callVars, peer, storeVars, run, argVars, walkVars, idx, processed,
                   skipped, failed, outcomes, histVars>>

\* A plausible bug: the batch commit comes one processed file late.
CommitDueLate(n) == n % (CommitEvery + 1) = 0

\* Line 279: `update_db and processed % 50 == 0`.
CommitDue(n) == n % CommitEvery = 0

\* Lines 258-280: the upsert through the wrapper, inside try/except, and the
\* test for the batch commit that follows it either way.
UpsertExecute ==
    /\ pc = "upsert"
    /\ \E o \in ExecOutcomes :
         /\ CanExecute(o)
         /\ Granted(o, TRUE)
         /\ SpendOn(o)
         /\ LET r == AfterExecute(o)
                row == UpsertParams(raw_files[idx], metadata)
                next == IF CommitDue(processed) THEN "batch_commit" ELSE "loop"
            IN  CASE r.callResult = "running" ->
                       /\ SetCall(r)
                       /\ pc' = pc
                       /\ UNCHANGED <<pending, outcomes, metadata>>
                  [] r.callResult = "raised" ->
                       /\ SetCall(NoCall)
                       /\ outcomes' = Append(outcomes, "db_error")
                       /\ metadata' = "none"
                       /\ pc' = next
                       /\ UNCHANGED pending
                  [] OTHER ->
                       /\ SetCall(NoCall)
                       /\ pending' = Append(pending, row)
                       /\ outcomes' = Append(outcomes, "converted")
                       /\ metadata' = "none"
                       /\ pc' = next
    /\ UNCHANGED <<tree, callVars, peer, previews, tableExists, db, run, argVars, walkVars,
                   idx, processed, skipped, failed, orphans, prev>>

\* Lines 282-284: the loop is over.
LoopEnd ==
    /\ pc = "loop"
    /\ idx = Len(raw_files)
    /\ pc' = IF update_db THEN "final_commit" ELSE "done"
    /\ UNCHANGED <<tree, callVars, peer, storeVars, run, argVars, walkVars, loopVars,
                   retryVars, faultsLeft, histVars>>

CommitResults == {"ok", "locked"}

\* conn.commit() of line 280 (the batch) and of line 285 (the final one,
\* followed by close and the summary): the open transaction becomes
\* visible, or, under contention, the commit raises and the exception ends
\* the process.  With no open transaction commit does nothing.
CommitStep ==
    /\ pc \in {"batch_commit", "final_commit"}
    /\ \E result \in CommitResults :
         IF result = "ok"
         THEN /\ db' = View
              /\ pending' = <<>>
              /\ pc' = IF pc = "batch_commit" THEN "loop" ELSE "done"
              /\ UNCHANGED <<faultsLeft, orphans, loopVars>>
         ELSE /\ pending # <<>>
              /\ FaultAllowed
              /\ faultsLeft' = Spend
              /\ pc' = "aborted"
              /\ RolledBack
              /\ ProcessGone
              /\ UNCHANGED db
    /\ UNCHANGED <<tree, callVars, peer, previews, tableExists, run, argVars, walkVars,
                   retryVars, prev>>

\* The process is terminated from outside, anywhere in a run.
Terminate ==
    /\ pc \notin Stopped
    /\ pc' = "killed"
    /\ RolledBack
    /\ ProcessGone
    /\ SetCall(NoCall)
    /\ UNCHANGED <<tree, callVars, peer, previews, tableExists, db, run, argVars, walkVars,
                   faultsLeft, prev>>

Scan ==
    \/ Found
    \/ Connect
    \/ SchemaExecute
    \/ LoopSkip
    \/ Convert
    \/ Extract
    \/ UpsertExecute
    \/ LoopEnd
    \/ CommitStep

\* ------------------------------------------------------------------------
\* A second scan process on the same catalog and the same tree
\* ------------------------------------------------------------------------

\* The row the other process upserts (lines 268-274), stamped by its clock.
PeerParams(raw_path, failure) ==
    [UpsertParams(raw_path, extract_exif_from_raw(failure))
       EXCEPT !.indexed_at = 0]

\* Lines 201-223 in the other process: it creates the table.
PeerSchema ==
    /\ ~tableExists
    /\ pending = <<>>
    /\ tableExists' = TRUE
    /\ UNCHANGED <<tree, callVars, peer, previews, db, pending, pc, run, argVars,
                   walkVars, loopVars, retryVars, faultsLeft, histVars>>

\* Lines 241-250 in the other process: it renders a preview.
PeerConvert ==
    /\ \E p \in Range(RawPaths(tree)) :
         /\ get_preview_path(p) \notin previews
         /\ previews' = previews \cup {get_preview_path(p)}
    /\ UNCHANGED <<tree, callVars, peer, tableExists, db, pending, pc, run, argVars,
                   walkVars, loopVars, retryVars, faultsLeft, histVars>>

\* Lines 253-276 in the other process: its upsert of a file it has a preview
\* of succeeds, which it can only while this process has no transaction open.
PeerUpsert ==
    /\ tableExists
    /\ pending = <<>>
    /\ Len(peer) < MaxPeerRows
    /\ \E p \in Range(RawPaths(tree)) : \E failure \in ExifFailures :
         /\ get_preview_path(p) \in previews
         /\ peer' = Append(peer, PeerParams(p, failure))
    /\ UNCHANGED <<tree, callVars, storeVars, pc, run, argVars, walkVars, loopVars,
                   retryVars, faultsLeft, histVars>>

\* Lines 279-286 in the other process: it commits.
PeerCommit ==
    /\ peer # <<>>
    /\ db' = ApplyAll(db, peer)
    /\ peer' = <<>>
    /\ UNCHANGED <<tree, callVars, previews, tableExists, pending, pc, run, argVars,
                   walkVars, loopVars, retryVars, faultsLeft, histVars>>

\* The other process is terminated with its transaction open.
PeerTerminate ==
    /\ peer # <<>>
    /\ peer' = <<>>
    /\ UNCHANGED <<tree, callVars, storeVars, pc, run, argVars, walkVars, loopVars,
                   retryVars, faultsLeft, histVars>>

Peer ==
    \/ PeerSchema
    \/ PeerConvert
    \/ PeerUpsert
    \/ PeerCommit
    \/ PeerTerminate

\* ------------------------------------------------------------------------
\* Specifications
\* ------------------------------------------------------------------------

WalkNames == {a_cr2, b_CR2, n_jpg, dot_cr2}

IsInjective(s) == \A i, j \in 1..Len(s) : s[i] = s[j] => i = j

\* The trees of at most MaxDirs directories (the root included) holding at
\* most MaxEntries entries together: a flat list of names cut into
\* directories, no name twice in a directory.
CutsOf(n, nd) ==
    {c \in [0..nd -> 0..n] :
        /\ c[0] = 0
        /\ c[nd] = n
        /\ \A j \in 1..nd : c[j - 1] <= c[j]}

TreeOf(flat, c, nd) == [d \in 1..nd |-> SubSeq(flat, c[d - 1] + 1, c[d])]

WalkTrees ==
    LET all == UNION { UNION { {TreeOf(flat, c, nd) : c \in CutsOf(n, nd)} :
                               flat \in [1..n -> WalkNames] } :
                       <<n, nd>> \in (0..MaxEntries) \X (1..MaxDirs) }
    IN  {t \in all : \A d \in 1..Len(t) : IsInjective(t[d])}

\* What no scan has touched yet.
IdleLocals ==
    /\ idx = 0 /\ processed = 0 /\ skipped = 0 /\ failed = 0
    /\ outcomes = <<>> /\ metadata = "none"
    /\ max_retries = DefaultMaxRetries /\ delay = DefaultDelay
    /\ attempt = 0 /\ execLog = <<>> /\ slept = <<>> /\ callResult = "none"

\* No function is called on its own.
NoFunctionCall == arg = <<>> /\ ret = <<>>

EmptyStore ==
    /\ tableExists = FALSE /\ db = <<>> /\ pending = <<>> /\ peer = <<>>
    /\ orphans = {}
    /\ prev = NoPrev

\* SpecWalk: the enumeration over every small tree and every limit.
InitWalk ==
    /\ tree \in WalkTrees
    /\ limit \in Limits
    /\ update_db = TRUE /\ regenerate = FALSE
    /\ pc = "walk" /\ run = 1
    /\ di = 1 /\ fi = 1 /\ raw_files = <<>> /\ examined = 0
    /\ faultsLeft = None
    /\ previews = {}
    /\ EmptyStore
    /\ NoFunctionCall
    /\ IdleLocals

SpecWalk == InitWalk /\ [][Walk]_vars

\* Spec: repeated scan runs, terminated or not, over one directory tree in
\* which two RAW files share a stem, with any number of faults.
ScanTree == <<<<a_cr2, n_jpg, a_nef>>, <<b_CR2>>>>

Init ==
    /\ tree = ScanTree
    /\ pc = "idle" /\ run = 0
    /\ update_db = TRUE /\ regenerate = FALSE /\ limit = None
    /\ di = 1 /\ fi = 1 /\ raw_files = <<>> /\ examined = 0
    /\ faultsLeft = None
    /\ previews = {}
    /\ EmptyStore
    /\ NoFunctionCall
    /\ IdleLocals

Next == StartScan \/ Walk \/ Scan \/ Terminate

Spec == Init /\ [][Next]_vars

\* SpecBatch: one run with catalog updating over a tree of BatchFiles
\* directories that hold one RAW file each, with at most BatchFaults faults.
BatchTree == [d \in 1..BatchFiles |-> <<a_cr2>>]

InitBatch ==
    /\ tree = BatchTree
    /\ pc = "walk" /\ run = 1
    /\ update_db = TRUE /\ regenerate = FALSE /\ limit = None
    /\ di = 1 /\ fi = 1 /\ raw_files = <<>> /\ examined = 0
    /\ faultsLeft = BatchFaults
    /\ previews \in {{}, {get_preview_path([root |-> 1, name |-> a_cr2])}}
    /\ EmptyStore
    /\ NoFunctionCall
    /\ IdleLocals

NextBatch == Walk \/ Scan

SpecBatch == InitBatch /\ [][NextBatch]_vars

\* SpecConc: one run with catalog updating while another scan process works
\* on the same tree and the same catalog; a reader of the catalog sees db.
\* Every lock this run meets is the other process's transaction.
ConcTree == <<<<a_cr2, b_CR2>>>>

InitConc ==
    /\ tree = ConcTree
    /\ pc = "walk" /\ run = 1
    /\ update_db = TRUE /\ regenerate \in BOOLEAN /\ limit = None
    /\ di = 1 /\ fi = 1 /\ raw_files = <<>> /\ examined = 0
    /\ faultsLeft = 0
    /\ previews = {}
    /\ EmptyStore
    /\ NoFunctionCall
    /\ IdleLocals

NextConc == Walk \/ Scan \/ Peer

SpecConc == InitConc /\ [][NextConc]_vars

\* SpecRetry: one call of db_execute_with_retry, for every max_retries and
\* delay, against every sequence of outcomes of cursor.execute.
RetryExecute ==
    /\ pc = "retry"
    /\ \E o \in ExecOutcomes :
         /\ CanExecute(o)
         /\ SetCall(AfterExecute(o))
    /\ UNCHANGED <<tree, callVars, peer, storeVars, pc, run, argVars, walkVars, loopVars,
                   faultsLeft, histVars>>

\* range(max_retries) is empty: line 56, return False.
RetryNoAttempt ==
    /\ pc = "retry"
    /\ callResult = "running"
    /\ attempt >= max_retries
    /\ callResult' = "returned_false"
    /\ UNCHANGED <<tree, callVars, peer, storeVars, pc, run, argVars, walkVars, loopVars,
                   max_retries, delay, attempt, execLog, slept, faultsLeft,
                   histVars>>

InitRetry ==
    /\ tree = <<<<>>>>
    /\ pc = "retry" /\ run = 0
    /\ update_db = TRUE /\ regenerate = FALSE /\ limit = None
    /\ di = 1 /\ fi = 1 /\ raw_files = <<>> /\ examined = 0
    /\ faultsLeft = None
    /\ previews = {}
    /\ EmptyStore
    /\ NoFunctionCall
    /\ idx = 0 /\ processed = 0 /\ skipped = 0 /\ failed = 0
    /\ outcomes = <<>> /\ metadata = "none"
    /\ max_retries \in 0..MaxRetriesArg
    /\ delay \in (1..MaxDelayArg) \cup {DefaultDelay}
    /\ attempt = 0 /\ execLog = <<>> /\ slept = <<>> /\ callResult = "running"

NextRetry == RetryExecute \/ RetryNoAttempt

SpecRetry == InitRetry /\ [][NextRetry]_vars

\* ------------------------------------------------------------------------
\* parse_client_info (lines 59-76)
\* ------------------------------------------------------------------------

\* Python's None among texts: no text holds a character "None".
NoneText == <<"None">>

IsDigit(c) == c \in {"0", "1", "2", "3", "4", "5", "6", "7", "8", "9"}

\* \s on the characters the paths of the model hold.
IsSpace(c) == c = " "

\* [\\/]: a backslash or a slash.
IsSep(c) == c \in {"\\", "/"}

\* (\d{4}-\d{2}-\d{2}) matches the ten characters from position i on.
DateAt(s, i) ==
    /\ i >= 1 /\ i + 9 <= Len(s)
    /\ \A k \in {0, 1, 2, 3, 5, 6, 8, 9} : IsDigit(s[i + k])
    /\ s[i + 4] = "-" /\ s[i + 7] = "-"

\* The greedy \s+ after the date at i: how many characters it first takes.
SpacesFrom(s, j) ==
    LET stops == {k \in j..(Len(s) + 1) : k > Len(s) \/ ~IsSpace(s[k])}
    IN  (CHOOSE k \in stops : \A m \in stops : k <= m) - j

\* The greedy [^\\/]+ from position j on: where it ends (j - 1: no match).
RunEnd(s, j) ==
    LET stops == {k \in j..(Len(s) + 1) : k > Len(s) \/ IsSep(s[k])}
    IN  (CHOOSE k \in stops : \A m \in stops : k <= m) - 1

\* pattern1 tried at position i: \s+ takes all the whitespace and gives
\* back one character at a time until [^\\/]+ matches at least one.  The
\* widths of \s+ with which the whole pattern matches.
Widths1(s, i) ==
    IF ~DateAt(s, i) THEN {}
    ELSE {w \in 1..SpacesFrom(s, i + 10) : RunEnd(s, i + 10 + w) >= i + 10 + w}

Max(S) == CHOOSE x \in S : \A y \in S : y <= x

Least(S) == CHOOSE x \in S : \A y \in S : x <= y

\* re.search(pattern1, filepath): the leftmost position with a match and
\* its groups, or no match (position 0).
Search1(s) ==
    LET at == {i \in 1..Len(s) : Widths1(s, i) # {}}
    IN  IF at = {} THEN [pos |-> 0, date |-> <<>>, client |-> <<>>]
        ELSE LET i == Least(at)
                 w == Max(Widths1(s, i))
             IN  [pos |-> i,
                  date |-> SubSeq(s, i, i + 9),
                  client |-> SubSeq(s, i + 10 + w, RunEnd(s, i + 10 + w))]

\* re.search(pattern2, filepath).
Search2(s) ==
    LET at == {i \in 1..Len(s) :
                 DateAt(s, i) /\ i + 10 <= Len(s) /\ IsSep(s[i + 10])}
    IN  IF at = {} THEN [pos |-> 0, date |-> <<>>]
        ELSE [pos |-> Least(at), date |-> SubSeq(s, Least(at), Least(at) + 9)]

\* str.strip().
RECURSIVE LStrip(_)
LStrip(t) == IF t # <<>> /\ IsSpace(Head(t)) THEN LStrip(Tail(t)) ELSE t

RECURSIVE RStrip(_)
RStrip(t) ==
    IF t # <<>> /\ IsSpace(t[Len(t)])
    THEN RStrip(SubSeq(t, 1, Len(t) - 1)) ELSE t

Strip(t) == RStrip(LStrip(t))

\* A plausible bug: the two patterns are tried in the other order.
parse_client_info_date_first(filepath) ==
    LET m1 == Search1(filepath)
        m2 == Search2(filepath)
    IN  IF m2.pos # 0 THEN [client_name |-> NoneText, date |-> m2.date]
        ELSE IF m1.pos # 0
        THEN [client_name |-> Strip(m1.client), date |-> m1.date]
        ELSE [client_name |-> NoneText, date |-> NoneText]

parse_client_info(filepath) ==
    LET m1 == Search1(filepath)
        m2 == Search2(filepath)
    IN  IF m1.pos # 0 THEN [client_name |-> Strip(m1.client), date |-> m1.date]
        ELSE IF m2.pos # 0
        THEN [client_name |-> NoneText, date |-> m2.date]
        ELSE [client_name |-> NoneText, date |-> NoneText]

\* ------------------------------------------------------------------------
\* Search (search_raw_photos; search_all_photos and --count of
\* photo-search-all.py)
\* ------------------------------------------------------------------------

Contains(t, part) ==
    \E k \in 0..(Len(t) - Len(part)) : SubSeq(t, k + 1, k + Len(part)) = part

\* column LIKE '%part%': ASCII letters compare without regard to case; never
\* true of a NULL column.
Like(value, part) ==
    value # NoneText /\ Contains(Lower(value), Lower(part))

\* `if client:`, `if date:`, `if camera:`: None and '' add no condition.
Given(x) == x # NoneText /\ x # <<>>

\* The WHERE clause the filters build; a NULL column fails every
\* comparison.
Matches(row, f) ==
    /\ Given(f.client) => Like(row.client_name, f.client)
    /\ Given(f.date) => (row.date # NoneText /\ row.date = f.date)
    /\ Given(f.camera) => Like(row.camera_model, f.camera)
    /\ f.location => row.has_gps

\* Text comparison of two dates, character by character.
CharCode(c) ==
    CASE c = "-" -> 45 [] c = "0" -> 48 [] c = "1" -> 49 [] c = "2" -> 50
      [] c = "3" -> 51 [] c = "4" -> 52 [] c = "5" -> 53 [] c = "6" -> 54
      [] c = "7" -> 55 [] c = "8" -> 56 [] c = "9" -> 57

RECURSIVE TextLess(_, _)
TextLess(a, b) ==
    IF b = <<>> THEN FALSE
    ELSE IF a = <<>> THEN TRUE
    ELSE IF Head(a) = Head(b) THEN TextLess(Tail(a), Tail(b))
    ELSE CharCode(Head(a)) < CharCode(Head(b))

\* ORDER BY date DESC allows row r before row q; NULL dates come last.
DescOk(r, q) ==
    q.date = NoneText \/ (r.date # NoneText /\ ~TextLess(r.date, q.date))

\* The orders ORDER BY date DESC may give the rows numbered in `ids`: the
\* order of rows with equal dates is not fixed.
Orderings(table, ids) ==
    {o \in [1..Cardinality(ids) -> ids] :
        /\ \A a, b \in 1..Cardinality(ids) : a # b => o[a] # o[b]
        /\ \A a, b \in 1..Cardinality(ids) :
              a < b => DescOk(table[o[a]], table[o[b]])}

\* LIMIT n; a negative n is no limit.
Limit(o, n) == IF n < 0 \/ n >= Len(o) THEN o ELSE SubSeq(o, 1, n)

\* cursor.fetchall(): the columns of the rows selected, the number of the
\* row in the table standing for its file path.
Fetch(table, o, tag) ==
    [k \in 1..Len(o) |->
        [filepath |-> o[k], client_name |-> table[o[k]].client_name,
         date |-> table[o[k]].date,
         camera_model |-> table[o[k]].camera_model, type |-> tag]]

\* The results one query can return.
Query(table, ids, n, tag) ==
    {Fetch(table, Limit(o, n), tag) : o \in Orderings(table, ids)}

\* search_raw_photos: sqlite3.connect creates a missing database file
\* empty, and the SELECT raises when the table is not there.
search_raw_photos(catalog, client, date, n) ==
    IF catalog.state # "ready"
    THEN {[raised |-> TRUE, rows |-> <<>>]}
    ELSE LET f == [client |-> client, date |-> date,
                   camera |-> NoneText, location |-> FALSE]
             ids == {i \in 1..Len(catalog.table) : Matches(catalog.table[i], f)}
         IN  {[raised |-> FALSE, rows |-> r] :
                r \in Query(catalog.table, ids, n, "RAW")}

\* One source of search_all_photos: skipped when the file is missing, no
\* row when the query raises.
SourceRows(catalog, f, tag) ==
    IF catalog.state # "ready" THEN {<<>>}
    ELSE LET ids == {i \in 1..Len(catalog.table) :
                        /\ Matches(catalog.table[i], f)
                        /\ tag = "RAW" => catalog.table[i].has_preview}
         IN  Query(catalog.table, ids, f.limit, tag)

\* A plausible bug: the RAW rows first.
search_all_photos_raw_first(jpg, raw, f) ==
    {b \o a : a \in SourceRows(jpg, f, "JPG"), b \in SourceRows(raw, f, "RAW")}

search_all_photos(jpg, raw, f) ==
    {a \o b : a \in SourceRows(jpg, f, "JPG"), b \in SourceRows(raw, f, "RAW")}

\* --count: the numbers main prints.
CountReport(results) ==
    [total |-> Len(results),
     jpg |-> Cardinality({k \in 1..Len(results) : results[k].type = "JPG"}),
     raw |-> Cardinality({k \in 1..Len(results) : results[k].type = "RAW"})]

\* ------------------------------------------------------------------------
\* Functions called on their own
\* ------------------------------------------------------------------------

\* Everything but the called function's position, arguments and result.
FunctionIdle ==
    /\ tree = <<<<>>>>
    /\ run = 0
    /\ update_db = TRUE /\ regenerate = FALSE /\ limit = None
    /\ di = 1 /\ fi = 1 /\ raw_files = <<>> /\ examined = 0
    /\ faultsLeft = None
    /\ previews = {}
    /\ EmptyStore
    /\ IdleLocals

idleVars ==
    <<tree, storeVars, peer, run, argVars, walkVars, loopVars, retryVars,
      faultsLeft, histVars>>

\* SpecPreview: get_preview_path on every two paths of PreviewPaths, the
\* first of them twice.
PreviewNames == {a_cr2, a_nef, b_CR2, n_jpg, dot_cr2, a_b_cr2, a_dot}

PreviewPaths == [root : 1..MaxDirs, name : PreviewNames]

InitPreview ==
    /\ FunctionIdle
    /\ pc = "preview"
    /\ arg \in PreviewPaths \X PreviewPaths
    /\ ret = <<>>

PreviewCall ==
    /\ pc = "preview"
    /\ ret' = <<get_preview_path(arg[1]), get_preview_path(arg[2]),
                get_preview_path(arg[1])>>
    /\ pc' = "preview_returned"
    /\ UNCHANGED <<idleVars, arg>>

SpecPreview == InitPreview /\ [][PreviewCall]_vars

\* SpecParse: parse_client_info on every path made of at most MaxTokens
\* pieces, each a date, a letter, a digit, a blank or a separator.
DateOne == <<"2", "0", "2", "4", "-", "0", "1", "-", "0", "2">>

DateTwo == <<"2", "0", "2", "3", "-", "1", "1", "-", "3", "0">>

PathPieces == {DateOne, DateTwo, <<"x">>, <<"7">>, <<" ">>, <<"/">>, <<"\\">>}

RECURSIVE Join(_)
Join(pieces) ==
    IF pieces = <<>> THEN <<>> ELSE Head(pieces) \o Join(Tail(pieces))

InitParse ==
    /\ FunctionIdle
    /\ pc = "parse"
    /\ \E n \in 0..MaxTokens : \E pieces \in [1..n -> PathPieces] :
          arg = Join(pieces)
    /\ ret = <<>>

ParseCall ==
    /\ pc = "parse"
    /\ ret' = parse_client_info(arg)
    /\ pc' = "parse_returned"
    /\ UNCHANGED <<idleVars, arg>>

SpecParse == InitParse /\ [][ParseCall]_vars

\* The catalogs a search can meet: the database file missing, the file
\* there without the table, or a table of at most MaxSearchRows rows.
Catalogs(rows) ==
    {[state |-> st, table |-> <<>>] : st \in {"missing", "no_table"}}
    \cup UNION {{[state |-> "ready", table |-> t] : t \in [1..n -> rows]} :
                  n \in 0..MaxSearchRows}

\* SpecSearch: search_raw_photos on every catalog of rows the scan writes.
ScanRows ==
    [client_name : {NoneText, <<"A", "b">>, <<"c">>},
     date : {NoneText, DateOne, DateTwo},
     camera_model : {<<"n">>}, has_gps : {FALSE}, has_preview : {TRUE}]

InitSearch ==
    /\ FunctionIdle
    /\ pc = "search"
    /\ arg \in [catalog : Catalogs(ScanRows),
                 client : {NoneText, <<>>, <<"a">>},
                 date : {NoneText, DateOne},
                 limit : (-1)..MaxSearchRows]
    /\ ret = <<>>

SearchCall ==
    /\ pc = "search"
    /\ ret' \in search_raw_photos(arg.catalog, arg.client, arg.date, arg.limit)
    /\ pc' = "search_returned"
    /\ UNCHANGED <<idleVars, arg>>

SpecSearch == InitSearch /\ [][SearchCall]_vars

\* SpecSearchAll: photo-search-all.py --count on every two catalogs of
\* rows of PhotoPool.
PhotoPool ==
    {[client_name |-> c, date |-> d,
      camera_model |-> IF d = DateOne THEN <<"n">> ELSE NoneText,
      has_gps |-> ((c = NoneText) = (d = DateOne)), has_preview |-> TRUE] :
        c \in {NoneText, <<"A", "b">>}, d \in {DateOne, DateTwo}}

SearchFilters ==
    [client : {NoneText, <<"a">>}, date : {NoneText, DateOne},
     camera : {NoneText}, location : BOOLEAN, limit : (-1)..MaxSearchRows]
    \cup [client : {NoneText, <<"a">>}, date : {NoneText, DateOne},
          camera : {<<"N">>}, location : {FALSE}, limit : (-1)..MaxSearchRows]

InitSearchAll ==
    /\ FunctionIdle
    /\ pc = "search_all"
    /\ arg \in [jpg : Catalogs(PhotoPool), raw : Catalogs(PhotoPool),
                 filters : SearchFilters]
    /\ ret = <<>>

SearchAllCall ==
    /\ pc = "search_all"
    /\ \E results \in search_all_photos(arg.jpg, arg.raw, arg.filters) :
          ret' = [results |-> results]
    /\ pc' = "search_all_returned"
    /\ UNCHANGED <<idleVars, arg>>

PrintCount ==
    /\ pc = "search_all_returned"
    /\ ret' = [results |-> ret.results, count |-> CountReport(ret.results)]
    /\ pc' = "counted"
    /\ UNCHANGED <<idleVars, arg>>

SpecSearchAll == InitSearchAll /\ [][SearchAllCall \/ PrintCount]_vars

\* SpecExif: extract_exif_from_raw on every image of RawImages.
InitExif ==
    /\ FunctionIdle
    /\ pc = "exif"
    /\ arg \in RawImages
    /\ ret = <<>>

ExifCall ==
    /\ pc = "exif"
    /\ ret' = ExifBundle(arg)
    /\ pc' = "exif_returned"
    /\ UNCHANGED <<idleVars, arg>>

SpecExif == InitExif /\ [][ExifCall]_vars

\* ------------------------------------------------------------------------
\* Properties
\* ------------------------------------------------------------------------

Last(q) == q[Len(q)]

Count(q, x) == Cardinality({i \in 1..Len(q) : q[i] = x})

AllLocked(n) == \A i \in 1..n : execLog[i] = "locked"

\* C1: with max_retries = 5, every execution but the last one met a lock, an
\* execution that succeeds makes the call return (so a lock that clears
\* after k <= 4 executions gives k + 1 executions), a lock met by fewer than
\* 5 executions keeps the call going, and the 5th locked execution raises.
RetryBound ==
    max_retries = DefaultMaxRetries =>
        /\ Len(execLog) <= DefaultMaxRetries
        /\ AllLocked(Len(execLog) - 1)
        /\ callResult # "returned_false"
        /\ callResult = "returned" <=> (execLog # <<>> /\ Last(execLog) = "ok")
        /\ (execLog # <<>> /\ Last(execLog) = "locked") =>
              IF Len(execLog) < DefaultMaxRetries
              THEN callResult = "running"
              ELSE callResult = "raised"

\* C1 witness: the lock clears after 2 failed attempts and the 3rd succeeds.
RetryBoundWitness ==
    /\ max_retries = DefaultMaxRetries
    /\ callResult = "returned"
    /\ execLog = <<"locked", "locked", "ok">>

AtMostOneRow(table) ==
    \A i, j \in 1..Len(table) : table[i].filepath = table[j].filepath => i = j

\* C3: the table never holds two rows of one filepath; an upsert leaves, for
\* its filepath, exactly the row of its own parameters (null where they are
\* null) and leaves every other filepath's row as it was; a commit makes the
\* table as the connection saw it the committed one.
UpsertOverwrite ==
    [][/\ AtMostOneRow(View') /\ AtMostOneRow(db')
       /\ Len(pending') = Len(pending) + 1 =>
            /\ RowsFor(View', raw_files[idx]) =
                 <<UpsertParams(raw_files[idx], metadata)>>
            /\ \A p \in PathsOfTree \ {raw_files[idx]} :
                 RowsFor(View', p) = RowsFor(View, p)
       /\ (pending # <<>> /\ pc' \in {"loop", "done"}
             /\ pc \in {"batch_commit", "final_commit"}) => db' = View
      ]_vars

\* C3 witness: a committed row with an aperture is replaced by an upsert
\* whose aperture is null.
UpsertOverwriteWitness ==
    \E i \in 1..Len(db) : \E j \in 1..Len(pending) :
        /\ db[i].filepath = pending[j].filepath
        /\ db[i].aperture # NULL
        /\ pending[j].aperture = NULL
        /\ RowsFor(View, db[i].filepath) = <<pending[j]>>

\* C4: a terminated run leaves no uncommitted row; a file that a terminated
\* run left with a preview and without a committed row keeps its preview,
\* has no row, committed or not, and is skipped, in every run until one
\* with regenerate=true.
CrashResume ==
    /\ pc \in {"killed", "aborted"} => pending = <<>>
    /\ \A p \in orphans :
         /\ get_preview_path(p) \in previews
         /\ RowsFor(View, p) = <<>>
         /\ \A i \in 1..Len(outcomes) :
              raw_files[i] = p => outcomes[i] = "skipped"

\* C4 witness: the rerun has skipped a file a terminated run left so.
CrashResumeWitness ==
    /\ pc = "done" /\ update_db /\ ~regenerate
    /\ \E i \in 1..Len(outcomes) :
         raw_files[i] \in orphans /\ outcomes[i] = "skipped"

\* C5 as claimed: at most 49 rows are upserted and not committed.
UncommittedAtMost49 == Len(pending) <= CommitEvery - 1

\* C5 amended: a commit is issued right after the upsert attempt of every
\* 50th processed file and once after the last file; at most 50 rows are
\* ever upserted and not committed, and at most 49 whenever the loop turns
\* to the next file.
BatchedCommits ==
    update_db =>
        /\ Len(pending) <= CommitEvery
        /\ pc = "batch_commit" =>
             /\ processed > 0 /\ processed % CommitEvery = 0
             /\ outcomes[idx] \in {"converted", "db_error"}
        /\ pc = "loop" =>
             /\ Len(pending) <= CommitEvery - 1
             /\ Len(pending) <= processed % CommitEvery
        /\ pc = "done" => pending = <<>>

\* C5 witness: the 50th row has been upserted and the batch commit is next.
BatchedCommitsWitness ==
    pc = "batch_commit" /\ Len(pending) = CommitEvery /\ update_db

\* C6 as claimed: once the connection is established no store-lock failure,
\* at schema creation (where the wrapper's last execution met a lock) or at
\* a commit (where no wrapper call is under way), aborts the run, and a run
\* that ends has an outcome for every file.
RunNeverAborts ==
    /\ pc = "aborted" => (execLog # <<>> /\ Last(execLog) # "locked")
    /\ pc = "done" => Len(outcomes) = Len(raw_files)

\* C7 as claimed: with catalog updating, a file counts as processed only
\* when its row was upserted, and a file whose upsert raised counts as
\* failed.
FailedCatalogCounted ==
    (pc = "done" /\ update_db) =>
        /\ processed = Count(outcomes, "converted")
        /\ failed = Count(outcomes, "failed") + Count(outcomes, "db_error")

HandledAll == pc \in {"loop", "batch_commit", "final_commit", "done"}

\* C7 amended: each handled file has one of the outcomes skipped, converted,
\* failed conversion, failed catalog write; skipped and failed count the
\* first and the third, processed counts every file whose conversion
\* succeeded, upserted or not; a converted file has its preview on disk and
\* its row in the table, a file whose upsert raised has its preview on disk
\* and is counted as processed.
OutcomeClassification ==
    (HandledAll /\ update_db) =>
        /\ Len(outcomes) = idx
        /\ skipped = Count(outcomes, "skipped")
        /\ failed = Count(outcomes, "failed")
        /\ processed = Count(outcomes, "converted") + Count(outcomes, "db_error")
        /\ \A i \in 1..idx :
             /\ outcomes[i] \in {"converted", "db_error"} =>
                  get_preview_path(raw_files[i]) \in previews
             /\ outcomes[i] = "converted" =>
                  Len(RowsFor(View, raw_files[i])) = 1
             /\ outcomes[i] = "skipped" =>
                  (~regenerate /\ get_preview_path(raw_files[i]) \in previews)

\* C7 witness: a run has ended with a file whose upsert raised.
OutcomeClassificationWitness ==
    /\ pc = "done" /\ update_db
    /\ Count(outcomes, "db_error") = 1
    /\ Count(outcomes, "converted") = 1
    /\ Count(outcomes, "failed") = 1

LastFor(q, p) == Last(RowsFor(q, p))

\* C8: with a second scan process on the same catalog, the two processes
\* never both hold uncommitted rows; at every step the row a reader sees
\* for a filepath (at most one) stays as it was or becomes wholly the last
\* row one process upserted for that filepath; and an upsert that raises
\* after its retries changes no row, visible or uncommitted.
NoTornRow ==
    [][/\ pending' = <<>> \/ peer' = <<>>
       /\ AtMostOneRow(db')
       /\ \A p \in PathsOfTree :
            \/ RowsFor(db', p) = RowsFor(db, p)
            \/ \E q \in {pending, peer} :
                 /\ RowsFor(q, p) # <<>>
                 /\ RowsFor(db', p) = <<LastFor(q, p)>>
       /\ (Len(outcomes') = Len(outcomes) + 1
             /\ Last(outcomes') = "db_error") =>
            /\ db' = db /\ pending' = pending
            /\ RowsFor(View', raw_files[idx]) = RowsFor(View, raw_files[idx])
      ]_vars

\* C8 witness: an upsert of this run was locked out by the other process
\* until it raised, and a reader sees the other process's row of a file for
\* which this run holds a different row uncommitted.
NoTornRowWitness ==
    /\ \E i \in 1..Len(outcomes) : outcomes[i] = "db_error"
    /\ \E i \in 1..Len(db) : \E j \in 1..Len(pending) :
         /\ db[i].filepath = pending[j].filepath
         /\ db[i].indexed_at = 0
         /\ db[i] # pending[j]

\* The number of entries the walk has to look at to find n RAW files.
RECURSIVE EntriesUntil(_, _)
EntriesUntil(paths, n) ==
    IF n <= 0 \/ paths = <<>> THEN 0
    ELSE 1 + EntriesUntil(Tail(paths),
                          IF IsRaw(Head(paths).name) THEN n - 1 ELSE n)

\* C9 as claimed: for every limit N that is given the enumeration returns
\* min(N, number of RAW files) paths, all RAW, and looks at no entry after
\* the N-th match.
ScannerLimit ==
    (pc = "found" /\ limit # None) =>
        /\ Len(raw_files) = Min(limit, Len(RawPaths(tree)))
        /\ \A i \in 1..Len(raw_files) : IsRaw(raw_files[i].name)
        /\ examined = EntriesUntil(AllPaths(tree), limit)

\* C10 as claimed: distinct RAW files of one scan have distinct preview
\* destinations, and in a run that starts without any preview no file is
\* skipped.
OnePreviewPerRaw ==
    /\ \A i, j \in 1..Len(raw_files) :
         i # j => get_preview_path(raw_files[i]) # get_preview_path(raw_files[j])
    /\ run = 1 => Count(outcomes, "skipped") = 0

ErrorSurfaced ==
    \A i \in 1..Len(execLog) :
        execLog[i] = "error" =>
            /\ i = Len(execLog)
            /\ callResult = "raised"
            /\ Len(slept) = i - 1

CounterInvariant ==
    [][/\ processed' + skipped' + failed' = idx'
       /\ idx' = idx + 1 =>
            \/ processed' = processed + 1
                 /\ skipped' = skipped /\ failed' = failed
            \/ skipped' = skipped + 1
                 /\ processed' = processed /\ failed' = failed
            \/ failed' = failed + 1
                 /\ processed' = processed /\ skipped' = skipped
       /\ (idx' = idx /\ pc' \notin {"walk", "killed", "aborted"}) =>
            (processed' = processed /\ skipped' = skipped /\ failed' = failed)
       /\ pc' = "done" => processed' + skipped' + failed' = Len(raw_files')
      ]_vars

\* C18 witness: a run has ended with one file in each counter.
CounterInvariantWitness ==
    /\ pc = "done"
    /\ processed = 1 /\ skipped = 1 /\ failed = 1
    /\ Len(raw_files) = 3

\* C19: every row of the catalog, committed or not, names as preview_path
\* the preview path of its filepath, and that preview is on disk; a file
\* that this run skipped or failed to convert has no row upserted by this
\* run.
RowsImplyPreviews ==
    /\ \A r \in Range(db) \cup Range(pending) :
         /\ r.preview_path = get_preview_path(r.filepath)
         /\ r.preview_path \in previews
    /\ \A i \in 1..Len(outcomes) :
         outcomes[i] \in {"skipped", "failed"} =>
            \A r \in Range(View) :
                r.filepath = raw_files[i] => r.indexed_at # run

\* C19 witness: in a second run, with regenerate, one file failed to
\* convert and keeps the row and the preview the first run gave it, and
\* another file has its new row uncommitted.
RowsImplyPreviewsWitness ==
    /\ run = 2
    /\ pending # <<>>
    /\ \E i \in 1..Len(outcomes) :
         /\ outcomes[i] = "failed"
         /\ RowsFor(db, raw_files[i]) # <<>>
         /\ RowsFor(pending, raw_files[i]) = <<>>

\* The steps of the extraction in the order of the code, with the field
\* each fills and the attribute it reads.
ExifSteps ==
    <<[field |-> "camera_make", attr |-> "make"],
      [field |-> "camera_model", attr |-> "model"],
      [field |-> "iso", attr |-> "iso_speed"],
      [field |-> "aperture", attr |-> "aperture"],
      [field |-> "shutter_speed", attr |-> "shutter"],
      [field |-> "focal_length", attr |-> "focal_length"],
      [field |-> "datetime", attr |-> "timestamp"]>>

\* The step raises on this image: the attribute is there and is not of the
\* kind the step formats, or it is a shutter time of 0.
StepFails(raw, k) ==
    LET a == raw[ExifSteps[k].attr]
    IN  a.has /\ (~a.ok \/ (ExifSteps[k].attr = "shutter" /\ a.v = 0))

\* Some step of the extraction fails on this image.
ExifFails(raw) ==
    \/ ~raw.readable
    \/ raw.has_metadata /\ \E k \in 1..Len(ExifSteps) : StepFails(raw, k)

\* C16 as claimed: whenever a step of the extraction fails the returned
\* bundle is all null.
ExifAllNullOnFailure ==
    (pc = "exif_returned" /\ ExifFails(arg)) => ret = AllNull

\* C16 amended: the call returns a bundle of the ten fields for every
\* image; a field is filled exactly when the image is readable with
\* metadata, its attribute is there, and neither its step nor a step
\* before it fails: an absent attribute leaves its own field null and stops
\* nothing, a failing step leaves its field and every later one null and
\* keeps the fields filled before it.
ExifBestEffort ==
    pc = "exif_returned" =>
        /\ DOMAIN ret = DOMAIN AllNull
        /\ \A k \in 1..Len(ExifSteps) :
             ret[ExifSteps[k].field] # NULL <=>
                /\ arg.readable /\ arg.has_metadata
                /\ arg[ExifSteps[k].attr].has
                /\ \A j \in 1..k : ~StepFails(arg, j)
        /\ ret.lens_model = NULL
        /\ ret.gps_latitude = NULL /\ ret.gps_longitude = NULL

\* C16 witness: the aperture is absent, the focal length is no number; the
\* camera make and the shutter speed are returned, the aperture, the focal
\* length and the timestamp that follows it are null.
ExifBestEffortWitness ==
    /\ pc = "exif_returned"
    /\ ~arg.aperture.has
    /\ arg.focal_length.has /\ ~arg.focal_length.ok
    /\ arg.timestamp.has /\ arg.timestamp.ok
    /\ ret.camera_make = "make"
    /\ ret.shutter_speed = "1/250"
    /\ ret.aperture = NULL /\ ret.focal_length = NULL /\ ret.datetime = NULL

\* `rest` is what pathlib takes for the suffix of a name it ends: nothing,
\* or a dot followed by at least one character and no further dot.
IsSuffixOf(rest, name) ==
    \/ /\ rest = <<>>
       /\ \A d \in 2..(Len(name) - 1) :
            name[d] = "." => \E e \in (d + 1)..Len(name) : name[e] = "."
    \/ /\ Len(rest) >= 2
       /\ Len(rest) < Len(name)
       /\ rest[1] = "."
       /\ \A e \in 2..Len(rest) : rest[e] # "."

\* C11: get_preview_path called twice with one path gives one result; the
\* result lies in the directory of the path and is named by the name of the
\* path with its suffix replaced by _preview.jpg; paths in different
\* directories have different results, whatever their stems.
PreviewPathDeterminism ==
    pc = "preview_returned" =>
        /\ ret[1] = ret[3]
        /\ ret[1].root = arg[1].root
        /\ \E k \in 1..Len(arg[1].name) :
             /\ ret[1].name = SubSeq(arg[1].name, 1, k) \o PreviewSuffix
             /\ IsSuffixOf(SubSeq(arg[1].name, k + 1, Len(arg[1].name)),
                           arg[1].name)
        /\ arg[1].root # arg[2].root => ret[1] # ret[2]

\* C11 witness: a.cr2 in one directory and a.nef in another share the stem
\* and get a_preview.jpg each in its own directory.
PreviewPathDeterminismWitness ==
    /\ pc = "preview_returned"
    /\ arg[1].name = a_cr2 /\ arg[2].name = a_nef
    /\ arg[1].root # arg[2].root
    /\ ret[1].name = <<"a">> \o PreviewSuffix
    /\ ret[2].name = ret[1].name
    /\ ret[1] # ret[2]

\* A date at position i, then w >= 1 blanks, then non-separator characters
\* up to position e.
ClientOccurrence(s, i, w, e) ==
    /\ w >= 1 /\ e >= i + 10 + w /\ e <= Len(s)
    /\ \A k \in (i + 10)..(i + 9 + w) : IsSpace(s[k])
    /\ \A k \in (i + 10 + w)..e : ~IsSep(s[k])
    /\ DateAt(s, i)

ClientOccurrences(s) ==
    {i \in 1..Len(s) :
        /\ DateAt(s, i)
        /\ \E w \in 1..(Len(s) - i), e \in (i + 1)..Len(s) :
              ClientOccurrence(s, i, w, e)}

BareDates(s) ==
    {i \in 1..Len(s) : DateAt(s, i) /\ i + 10 <= Len(s) /\ IsSep(s[i + 10])}

\* C12: parse_client_info returns the trimmed run and the date of the
\* leftmost date-blank-run occurrence when the path holds one, even after
\* an earlier bare date; otherwise the leftmost date directly followed by
\* a separator, with no client; otherwise neither.
ParseClientInfo ==
    pc = "parse_returned" =>
        \E occurrences \in {ClientOccurrences(arg)}, dates \in {BareDates(arg)} :
            IF occurrences # {}
            THEN \E i \in occurrences :
                    /\ \A j \in occurrences : i <= j
                    /\ ret.date = SubSeq(arg, i, i + 9)
                    /\ \A w \in 1..(Len(arg) - i), e \in (i + 1)..Len(arg) :
                           ( /\ ClientOccurrence(arg, i, w, e)
                             /\ (e = Len(arg) \/ IsSep(arg[e + 1])) )
                           => ret.client_name = Strip(SubSeq(arg, i + 10 + w, e))
            ELSE IF dates # {}
            THEN \E i \in dates :
                    /\ \A j \in dates : i <= j
                    /\ ret = [client_name |-> NoneText,
                              date |-> SubSeq(arg, i, i + 9)]
            ELSE ret = [client_name |-> NoneText, date |-> NoneText]

\* A bare date and a separator come first, the date with a client after it.
ParseClientInfoWitness ==
    /\ pc = "parse_returned"
    /\ arg = DateOne \o <<"/">> \o DateTwo \o <<" ", "x">>
    /\ ret = [client_name |-> <<"x">>, date |-> DateTwo]

\* C13: search_raw_photos never raises, in any catalog state; the rows it
\* returns all have the given client in client_name and the given date,
\* are in date-descending order and number at most limit.
SearchRawPhotos ==
    pc = "search_returned" =>
        /\ ~ret.raised
        /\ \A k \in 1..Len(ret.rows) :
              /\ Given(arg.client) =>
                    /\ ret.rows[k].client_name # NoneText
                    /\ Contains(Lower(ret.rows[k].client_name), Lower(arg.client))
              /\ Given(arg.date) => ret.rows[k].date = arg.date
        /\ \A a, b \in 1..Len(ret.rows) :
              a < b => DescOk(ret.rows[a], ret.rows[b])
        /\ Len(ret.rows) <= arg.limit

\* The rows of a catalog that match the filters.
MatchingRows(catalog, f) ==
    {i \in 1..Len(catalog.table) : Matches(catalog.table[i], f)}

\* C14: the total --count reports is the number of rows matching the
\* filters in the two catalogs, whatever the limit; the JPG and RAW counts
\* are the numbers of matching rows of each catalog and add up to it.
CountIsTotal ==
    pc = "counted" =>
        /\ ret.count.jpg = Cardinality(MatchingRows(arg.jpg, arg.filters))
        /\ ret.count.raw = Cardinality(MatchingRows(arg.raw, arg.filters))
        /\ ret.count.total = ret.count.jpg + ret.count.raw

\* The positions of the rows of one source in the results.
RowsOf(results, tag) == {k \in 1..Len(results) : results[k].type = tag}

\* The rows tagged `tag` are rows of `catalog` matching the filters, each
\* once, in date-descending order, and no row left out has a date after
\* the date of a row returned; none when the catalog cannot be queried.
SourceResult(results, tag, catalog, f) ==
    LET at == RowsOf(results, tag)
        matching == IF catalog.state = "ready"
                    THEN MatchingRows(catalog, f) ELSE {}
        returned == {results[k].filepath : k \in at}
    IN  /\ returned \subseteq matching
        /\ \A a, b \in at :
              a < b => /\ results[a].filepath # results[b].filepath
                       /\ DescOk(results[a], results[b])
        /\ \A k \in at :
              LET row == catalog.table[results[k].filepath]
              IN  /\ results[k].client_name = row.client_name
                  /\ results[k].date = row.date
                  /\ results[k].camera_model = row.camera_model
        /\ \A i \in returned, j \in matching \ returned :
              DescOk(catalog.table[i], catalog.table[j])
        /\ \/ returned = matching
           \/ Cardinality(returned) = f.limit

\* JPG rows first, RAW rows after, each source as SourceResult says.
SourceThenDate ==
    /\ \A k \in 1..Len(ret.results) : ret.results[k].type \in {"JPG", "RAW"}
    /\ \A a \in RowsOf(ret.results, "JPG"), b \in RowsOf(ret.results, "RAW") :
          a < b
    /\ SourceResult(ret.results, "JPG", arg.jpg, arg.filters)
    /\ SourceResult(ret.results, "RAW", arg.raw, arg.filters)

\* C15 as claimed: the results of search_all_photos are the JPG rows then
\* the RAW rows, each source date-descending and at most limit rows long,
\* a source that cannot be queried giving no row.
DualSearchClaimed ==
    pc = "search_all_returned" =>
        /\ SourceThenDate
        /\ Cardinality(RowsOf(ret.results, "JPG")) <= arg.filters.limit
        /\ Cardinality(RowsOf(ret.results, "RAW")) <= arg.filters.limit

\* C15: the results of search_all_photos are the JPG rows then the RAW
\* rows, each source date-descending and, for a limit of 0 or more, at
\* most limit rows long (a negative limit truncates nothing); a source
\* that cannot be queried gives no row and the other source is returned.
DualSearch ==
    pc = "search_all_returned" =>
        /\ SourceThenDate
        /\ arg.filters.limit >= 0 =>
              /\ Cardinality(RowsOf(ret.results, "JPG")) <= arg.filters.limit
              /\ Cardinality(RowsOf(ret.results, "RAW")) <= arg.filters.limit

\* Each catalog holds two rows and gives one; the JPG row comes first
\* though its date is the earlier one.
DualSearchWitness ==
    /\ pc = "search_all_returned"
    /\ arg.filters.limit = 1
    /\ Len(arg.jpg.table) = 2 /\ Len(arg.raw.table) = 2
    /\ Len(ret.results) = 2
    /\ ret.results[1].type = "JPG" /\ ret.results[1].date = DateTwo
    /\ ret.results[2].type = "RAW" /\ ret.results[2].date = DateOne

=============================================================================
